---- MODULE Spec2Model ----
(***************************************************************************)
(* Model of the meta service of the distributed file store                 *)
(* (src/services/meta): the catalog document metadata.json, its            *)
(* persistence (core/state.py), the membership tracker, the placement      *)
(* engine and the request handlers of routers/client_api.py.               *)
(*                                                                         *)
(* Three specifications share the definitions:                             *)
(*   Spec      - requests handled one after the other, each handler one    *)
(*               atomic action (load, sweep, body, persist);               *)
(*   SpecCrash - one handler running step by step through its file         *)
(*               operations, with the process crashing at any step;        *)
(*   SpecConc  - two handlers running step by step, interleaved, as the    *)
(*               server's worker threads run them (the code takes no lock).*)
(***************************************************************************)
EXTENDS Integers, Sequences, FiniteSets, TLC

(***************************************************************************)
(* Configuration (core/config.py) and the bounds of the model.             *)
(***************************************************************************)
\* STORAGE_NODES: the configured node list N_cfg, here three nodes.
STORAGE_NODES == <<"s1", "s2", "s3">>

\* REPLICATION_FACTOR is fixed when the process starts. The runs cover R = 0,
\* R below, at and above the number of configured nodes.
ReplicationFactors == 0..(Len(STORAGE_NODES) + 1)

\* HEARTBEAT_TIMEOUT_SEC, in clock ticks of the model.
HEARTBEAT_TIMEOUT_SEC == 1

\* The clock runs from 0 to MaxTime.
MaxTime == 2

\* A document is written to a file in NumBlocks write calls.
NumBlocks == 2

\* In the stepwise runs each handler thread of a process takes up
\* MaxServed requests.
MaxServed == 1

\* A stored replica list handed to repair on its own has up to MaxCurrent
\* entries.
MaxCurrent == 3

\* Requests are drawn from these sets.
Fingerprints == {"a", "b"}
FileNames == {"f"}
ChunkLists == {<<"a">>, <<"b", "a", "b">>}
\* Heartbeats arrive from s1, which pads its node id, and from s2 (s3 is a
\* node that never sends one), and with blank and unknown node ids.
HeartbeatIds == {" s1 ", "s2", " ", "sx"}

VARIABLES
    REPLICATION_FACTOR, \* config: the replication factor R of this run
    now,                \* the wall clock (time.time())
    meta,               \* the canonical file METADATA_FILE
    tmp,                \* the temp file METADATA_FILE.with_suffix(".json.tmp")
    resp,               \* the response on its way to the caller (NoResp
                        \* once the caller has taken it)
    registered,         \* history: per fingerprint, what the last successful
                        \* chunk_register returned, while no membership
                        \* status has changed since
    acked,              \* history: the fingerprints whose chunk_register
                        \* returned 200, per file name the chunk list of
                        \* the last file_commit that returned 200, and per
                        \* node the time of its last heartbeat that
                        \* returned 200, while it is no older than the
                        \* timeout (-1: none)
    procs,              \* the running handlers (SpecCrash, SpecConc)
    request,            \* history: the request that resp answers
    call                \* a call of the placement engine on its own
                        \* (SpecRepair): its arguments and results

vars ==
    <<REPLICATION_FACTOR, now, meta, tmp, resp, registered, acked, procs,
      request, call>>

(***************************************************************************)
(* Helpers on sequences and maps.                                          *)
(***************************************************************************)
Range(s) == {s[i] : i \in DOMAIN s}

EmptyMap == [x \in {} |-> 0]

Put(f, k, v) == [x \in (DOMAIN f) \cup {k} |-> IF x = k THEN v ELSE f[x]]

Get(f, k, default) == IF k \in DOMAIN f THEN f[k] ELSE default

\* [x for x in s if x in S]
Filter(s, S) == SelectSeq(s, LAMBDA x : x \in S)

\* Python's s[:k] for k >= 0
Prefix(s, k) == SubSeq(s, 1, IF k < Len(s) THEN k ELSE Len(s))

\* random.sample(population, k): k positions drawn without replacement,
\* in any order. The set of the lists it can return.
Sample(population, k) ==
    { [i \in 1..k |-> population[idx[i]]] :
        idx \in { f \in [1..k -> DOMAIN population] :
                    \A i, j \in 1..k : i # j => f[i] # f[j] } }

(***************************************************************************)
(* Membership entries (core/state.py).                                     *)
(***************************************************************************)
\* datetime.fromtimestamp(ts).isoformat() with "+00:00" replaced by "Z"
_timestamp_to_iso(ts) == <<"Z", ts>>

\* str.strip().lower() on the status words the model uses
StripLower(s) ==
    CASE s = "ALIVE" -> "alive"
      [] s = " dead " -> "dead"
      [] OTHER -> s

\* Mutant: only alive and dead are statuses; anything else loads as dead.
_normalize_status_two_states(raw_status) ==
    LET normalized == StripLower(raw_status)
    IN  IF normalized \in {"alive", "dead"}
        THEN normalized
        ELSE "dead"

_normalize_status(raw_status) ==
    LET normalized == StripLower(raw_status)
    IN  IF normalized \in {"alive", "dead", "suspected"}
        THEN normalized
        ELSE "dead"

_new_membership_entry(now_ts, status) ==
    [ status |-> _normalize_status(status),
      last_heartbeat_ts |-> now_ts,
      last_heartbeat_at |-> _timestamp_to_iso(now_ts) ]

\* raw is membership.get(node_id): an entry of the map, or absent (None).
_coerce_membership_entry(membership, node_id, now_ts) ==
    IF node_id \notin DOMAIN membership
    THEN _new_membership_entry(now_ts, "alive")
    ELSE LET raw == membership[node_id]
             hb_ts == raw.last_heartbeat_ts
         IN  [ status |-> _normalize_status(raw.status),
               last_heartbeat_ts |-> hb_ts,
               last_heartbeat_at |->
                   IF raw.last_heartbeat_at = <<>>
                   THEN _timestamp_to_iso(hb_ts)
                   ELSE raw.last_heartbeat_at ]

\* Mutant: the schema keeps the entries of the configured nodes only.
ensure_membership_schema_pruned(state, now_ts) ==
    LET membership_raw == state.membership
        completed == [ n \in Range(STORAGE_NODES) |->
                          IF n \in DOMAIN membership_raw
                          THEN _coerce_membership_entry(membership_raw, n, now_ts)
                          ELSE _new_membership_entry(now_ts, "alive") ]
    IN  [state EXCEPT !.membership = completed]

\* Returns the state with its membership normalised and completed; the
\* code's return value `changed` is ensure_membership_changed below.
ensure_membership_schema(state, now_ts) ==
    LET membership_raw == state.membership
        normalized == [ n \in DOMAIN membership_raw |->
                          _coerce_membership_entry(membership_raw, n, now_ts) ]
        completed == [ n \in (DOMAIN normalized) \cup Range(STORAGE_NODES) |->
                          IF n \in DOMAIN normalized
                          THEN normalized[n]
                          ELSE _new_membership_entry(now_ts, "alive") ]
    IN  [state EXCEPT !.membership = completed]

ensure_membership_changed(state, now_ts) ==
    ensure_membership_schema(state, now_ts).membership # state.membership

\* Mutant: the sweep demotes nobody.
SweepEntry_no_timeout(entry, now_ts) == entry

\* Mutant: the sweep demotes alive entries only.
SweepEntry_alive_only(entry, now_ts) ==
    LET elapsed == now_ts - entry.last_heartbeat_ts
    IN  IF entry.status = "alive" /\ elapsed > HEARTBEAT_TIMEOUT_SEC
        THEN [entry EXCEPT !.status = "dead"]
        ELSE entry

\* Mutant: the sweep revives a dead entry whose heartbeat is recent.
SweepEntry_revive(entry, now_ts) ==
    LET elapsed == now_ts - entry.last_heartbeat_ts
    IN  IF elapsed > HEARTBEAT_TIMEOUT_SEC
        THEN IF entry.status \in {"alive", "suspected"}
             THEN [entry EXCEPT !.status = "dead"]
             ELSE entry
        ELSE IF entry.status = "dead"
             THEN [entry EXCEPT !.status = "alive"]
             ELSE entry

\* The entry of one configured node after the timeout sweep.
SweepEntry(entry, now_ts) ==
    LET elapsed == now_ts - entry.last_heartbeat_ts
    IN  IF entry.status \in {"alive", "suspected"}
           /\ elapsed > HEARTBEAT_TIMEOUT_SEC
        THEN [entry EXCEPT !.status = "dead"]
        ELSE entry

apply_storage_heartbeat_timeout(state, now_ts) ==
    LET s1 == ensure_membership_schema(state, now_ts)
        membership == s1.membership
    IN  [ s1 EXCEPT !.membership =
            [ n \in DOMAIN membership |->
                IF n \in Range(STORAGE_NODES)
                THEN SweepEntry(
                        _coerce_membership_entry(membership, n, now_ts), now_ts)
                ELSE membership[n] ] ]

refresh_storage_membership(state, now_ts) ==
    apply_storage_heartbeat_timeout(
        ensure_membership_schema(state, now_ts), now_ts)

\* Mutant: the refresh never reports a change, so its result is not
\* persisted.
refresh_unreported(state, now_ts) == FALSE

\* `changed` of refresh_storage_membership: an entry was normalised, a node
\* was added, or a node was demoted.
refresh_changed(state, now_ts) ==
    refresh_storage_membership(state, now_ts).membership # state.membership

\* Mutant: the heartbeat sets the status and leaves the old timestamp.
mark_storage_heartbeat_status_only(state, node_id, now_ts) ==
    LET s1 == ensure_membership_schema(state, now_ts)
        old_entry == _coerce_membership_entry(s1.membership, node_id, now_ts)
    IN  [s1 EXCEPT !.membership =
            Put(s1.membership, node_id, [old_entry EXCEPT !.status = "alive"])]

mark_storage_heartbeat(state, node_id, now_ts) ==
    LET s1 == ensure_membership_schema(state, now_ts)
        new_entry == _new_membership_entry(now_ts, "alive")
    IN  [s1 EXCEPT !.membership = Put(s1.membership, node_id, new_entry)]

mark_changed(state, node_id, now_ts) ==
    \/ ensure_membership_changed(state, now_ts)
    \/ _coerce_membership_entry(
          ensure_membership_schema(state, now_ts).membership, node_id, now_ts)
         # _new_membership_entry(now_ts, "alive")

get_membership_snapshot(state, now_ts) ==
    LET membership == ensure_membership_schema(state, now_ts).membership
    IN  [ n \in DOMAIN membership |->
            _coerce_membership_entry(membership, n, now_ts) ]

\* The alive nodes, in the order of STORAGE_NODES. The model runs the default
\* configuration, ENABLE_STORAGE_HEALTHCHECK off: no live probe of /health.
get_alive_storage_nodes(state, now_ts) ==
    LET membership == get_membership_snapshot(state, now_ts)
    IN  SelectSeq(STORAGE_NODES,
                  LAMBDA n : n \in DOMAIN membership
                             /\ membership[n].status = "alive")

(***************************************************************************)
(* Placement (core/state.py choose_replicas, client_api.py repair).        *)
(***************************************************************************)
RECURSIVE _unique_nodes(_)
_unique_nodes(nodes) ==
    IF nodes = <<>>
    THEN <<>>
    ELSE LET init == _unique_nodes(SubSeq(nodes, 1, Len(nodes) - 1))
             node == nodes[Len(nodes)]
         IN  IF node # "" /\ node \notin Range(init)
             THEN Append(init, node)
             ELSE init

\* Mutant: every alive node is chosen, whatever replica_count says.
choose_replicas_all(alive_nodes, replica_count) ==
    IF Len(alive_nodes) < replica_count THEN {}
    ELSE Sample(alive_nodes, Len(alive_nodes))

\* The lists choose_replicas can return; the empty set when it raises.
choose_replicas(alive_nodes, replica_count) ==
    IF replica_count <= 0 THEN { <<>> }
    ELSE IF Len(alive_nodes) < replica_count THEN {}
    ELSE Sample(alive_nodes, replica_count)

\* Mutant: the candidates are all alive nodes, the kept ones included.
_repair_any_candidate(current_replicas, alive_nodes) ==
    LET current == Filter(_unique_nodes(current_replicas), Range(alive_nodes))
        needed == REPLICATION_FACTOR - Len(current)
    IN  IF Len(current) >= REPLICATION_FACTOR
        THEN { [ok |-> TRUE, nodes |-> Prefix(current, REPLICATION_FACTOR)] }
        ELSE IF Len(alive_nodes) < needed
        THEN { [ok |-> FALSE, nodes |-> <<>>] }
        ELSE { [ok |-> TRUE, nodes |-> current \o s] :
                 s \in Sample(alive_nodes, needed) }

\* Mutant: the stored list is ignored; R alive nodes are drawn afresh.
_repair_resample(current_replicas, alive_nodes) ==
    IF Len(alive_nodes) < REPLICATION_FACTOR
    THEN { [ok |-> FALSE, nodes |-> <<>>] }
    ELSE { [ok |-> TRUE, nodes |-> s] :
             s \in Sample(alive_nodes, REPLICATION_FACTOR) }

\* The outcomes of _repair_chunk_replicas: [ok |-> TRUE, nodes |-> list], or
\* [ok |-> FALSE] when it raises HTTPException(500).
_repair_chunk_replicas(current_replicas, alive_nodes) ==
    LET current == Filter(_unique_nodes(current_replicas), Range(alive_nodes))
        needed == REPLICATION_FACTOR - Len(current)
        candidates == SelectSeq(alive_nodes, LAMBDA n : n \notin Range(current))
    IN  IF Len(current) >= REPLICATION_FACTOR
        THEN { [ok |-> TRUE, nodes |-> Prefix(current, REPLICATION_FACTOR)] }
        ELSE IF Len(candidates) < needed
        THEN { [ok |-> FALSE, nodes |-> <<>>] }
        ELSE { [ok |-> TRUE, nodes |-> current \o s] :
                 s \in Sample(candidates, needed) }

(***************************************************************************)
(* The catalog document and its file form.                                 *)
(***************************************************************************)
\* init_content of ensure_metadata_file
InitContent ==
    [files |-> EmptyMap, chunks |-> EmptyMap, membership |-> EmptyMap,
     version |-> 1]

\* json.dumps(state): the text of a document, written in NumBlocks blocks.
Render(doc) == [i \in 1..NumBlocks |-> [doc |-> doc, i |-> i]]

\* A block never written (a hole left by a write past the end of the file).
Hole == [doc |-> InitContent, i |-> 0]

\* json.loads succeeds on the complete text of one document only.
Parses(data) ==
    /\ Len(data) = NumBlocks
    /\ \A i \in 1..NumBlocks : data[i].i = i /\ data[i].doc = data[1].doc

Parsed(data) == data[1].doc

NoFile == [exists |-> FALSE, data |-> <<>>]

FileOf(doc) == [exists |-> TRUE, data |-> Render(doc)]

\* The file after write(block) at block position pos (1-based).
WriteAt(file, pos, block) ==
    LET old == file.data
        n == IF Len(old) > pos THEN Len(old) ELSE pos
    IN  [file EXCEPT !.data =
            [i \in 1..n |-> IF i = pos THEN block
                            ELSE IF i <= Len(old) THEN old[i] ELSE Hole]]

(***************************************************************************)
(* Requests, responses and the handlers of routers/client_api.py.          *)
(* A handler is a function of the loaded document, the request and the     *)
(* clock; it yields the documents it persists, in order, and its response. *)
(***************************************************************************)
Req(op, key, fps) == [op |-> op, key |-> key, fps |-> fps]

Resp(op, key, code, nodes, exists, items, at) ==
    [op |-> op, key |-> key, code |-> code, nodes |-> nodes,
     exists |-> exists, items |-> items, at |-> at]

NoResp == Resp("none", "", 0, <<>>, FALSE, <<>>, 0)

\* The response to a request whose handler raised: 400 from the heartbeat's
\* validation, 500 from an exception of load_state or persist_state (items
\* names the exception).
ErrorResp(req, code, exception, now_ts) ==
    Resp(req.op, req.key, code, <<>>, FALSE, <<exception>>, now_ts)

Outcome(writes, r) == [writes |-> writes, resp |-> r]

\* _load_state_with_membership_refresh, after load_state: the refreshed
\* state, and the documents persisted (one if the refresh changed anything).
RefreshedState(state, now_ts) == refresh_storage_membership(state, now_ts)

RefreshWrites(state, now_ts) ==
    IF refresh_changed(state, now_ts)
    THEN << refresh_storage_membership(state, now_ts) >>
    ELSE << >>

\* [node for node in _unique_nodes(replicas) if node in alive_set]
AliveReplicas(state, fp, now_ts) ==
    Filter(_unique_nodes(Get(state.chunks, fp, [replicas |-> <<>>]).replicas),
           Range(get_alive_storage_nodes(state, now_ts)))

\* Mutant: a recorded chunk exists as soon as one replica is alive.
chunk_check_any_replica(state0, fingerprint, now_ts) ==
    LET state == RefreshedState(state0, now_ts)
        w1 == RefreshWrites(state0, now_ts)
        replicas == AliveReplicas(state, fingerprint, now_ts)
    IN  { Outcome(w1, Resp("chunk_check", fingerprint, 200, replicas,
                           Len(replicas) > 0, <<>>, now_ts)) }

chunk_check(state0, fingerprint, now_ts) ==
    LET state == RefreshedState(state0, now_ts)
        w1 == RefreshWrites(state0, now_ts)
        replicas == AliveReplicas(state, fingerprint, now_ts)
    IN  IF fingerprint \notin DOMAIN state.chunks
        THEN { Outcome(w1, Resp("chunk_check", fingerprint, 200, <<>>, FALSE,
                                <<>>, now_ts)) }
        ELSE { Outcome(w1, Resp("chunk_check", fingerprint, 200, replicas,
                                Len(replicas) >= REPLICATION_FACTOR,
                                <<>>, now_ts)) }

\* Mutant: a repaired replica list is returned but never persisted.
chunk_register_repair_unsaved(state0, fingerprint, now_ts) ==
    LET state == RefreshedState(state0, now_ts)
        w1 == RefreshWrites(state0, now_ts)
        alive_nodes == get_alive_storage_nodes(state, now_ts)
        fail == Outcome(w1, Resp("chunk_register", fingerprint, 500, <<>>,
                                 FALSE, <<>>, now_ts))
        ok(nodes) == Resp("chunk_register", fingerprint, 200,
                          _unique_nodes(nodes), FALSE, <<>>, now_ts)
        stored(nodes) ==
            [state EXCEPT !.chunks =
                Put(state.chunks, fingerprint, [replicas |-> nodes])]
    IN  IF Len(alive_nodes) < REPLICATION_FACTOR
        THEN { fail }
        ELSE IF fingerprint \notin DOMAIN state.chunks
        THEN { Outcome(Append(w1, stored(assigned)), ok(assigned)) :
                 assigned \in choose_replicas(alive_nodes, REPLICATION_FACTOR) }
        ELSE { IF ~r.ok THEN fail ELSE Outcome(w1, ok(r.nodes)) :
                 r \in _repair_chunk_replicas(
                          state.chunks[fingerprint].replicas, alive_nodes) }

\* Mutant: with fewer than R alive nodes a new chunk is placed on the nodes
\* that are alive.
chunk_register_degraded(state0, fingerprint, now_ts) ==
    LET state == RefreshedState(state0, now_ts)
        w1 == RefreshWrites(state0, now_ts)
        alive_nodes == get_alive_storage_nodes(state, now_ts)
        fail == Outcome(w1, Resp("chunk_register", fingerprint, 500, <<>>,
                                 FALSE, <<>>, now_ts))
        ok(nodes) == Resp("chunk_register", fingerprint, 200,
                          _unique_nodes(nodes), FALSE, <<>>, now_ts)
        stored(nodes) ==
            [state EXCEPT !.chunks =
                Put(state.chunks, fingerprint, [replicas |-> nodes])]
    IN  IF fingerprint \notin DOMAIN state.chunks
        THEN IF Len(alive_nodes) < REPLICATION_FACTOR
             THEN { Outcome(Append(w1, stored(alive_nodes)), ok(alive_nodes)) }
             ELSE { Outcome(Append(w1, stored(assigned)), ok(assigned)) :
                      assigned \in choose_replicas(alive_nodes,
                                                   REPLICATION_FACTOR) }
        ELSE IF Len(alive_nodes) < REPLICATION_FACTOR
        THEN { fail }
        ELSE LET current_replicas == state.chunks[fingerprint].replicas
             IN  { IF ~r.ok THEN fail
                   ELSE IF r.nodes # _unique_nodes(current_replicas)
                   THEN Outcome(Append(w1, stored(r.nodes)), ok(r.nodes))
                   ELSE Outcome(w1, ok(r.nodes)) :
                     r \in _repair_chunk_replicas(current_replicas, alive_nodes) }

\* Mutant: a recorded chunk gets a fresh choice of replicas on every call.
chunk_register_rechoose(state0, fingerprint, now_ts) ==
    LET state == RefreshedState(state0, now_ts)
        w1 == RefreshWrites(state0, now_ts)
        alive_nodes == get_alive_storage_nodes(state, now_ts)
        fail == Outcome(w1, Resp("chunk_register", fingerprint, 500, <<>>,
                                 FALSE, <<>>, now_ts))
        ok(nodes) == Resp("chunk_register", fingerprint, 200,
                          _unique_nodes(nodes), FALSE, <<>>, now_ts)
        stored(nodes) ==
            [state EXCEPT !.chunks =
                Put(state.chunks, fingerprint, [replicas |-> nodes])]
    IN  IF Len(alive_nodes) < REPLICATION_FACTOR
        THEN { fail }
        ELSE { Outcome(Append(w1, stored(assigned)), ok(assigned)) :
                 assigned \in choose_replicas(alive_nodes, REPLICATION_FACTOR) }

chunk_register(state0, fingerprint, now_ts) ==
    LET state == RefreshedState(state0, now_ts)
        w1 == RefreshWrites(state0, now_ts)
        alive_nodes == get_alive_storage_nodes(state, now_ts)
        fail == Outcome(w1, Resp("chunk_register", fingerprint, 500, <<>>,
                                 FALSE, <<>>, now_ts))
        ok(nodes) == Resp("chunk_register", fingerprint, 200,
                          _unique_nodes(nodes), FALSE, <<>>, now_ts)
        stored(nodes) ==
            [state EXCEPT !.chunks =
                Put(state.chunks, fingerprint, [replicas |-> nodes])]
    IN  IF Len(alive_nodes) < REPLICATION_FACTOR
        THEN { fail }
        ELSE IF fingerprint \notin DOMAIN state.chunks
        THEN { Outcome(Append(w1, stored(assigned)), ok(assigned)) :
                 assigned \in choose_replicas(alive_nodes, REPLICATION_FACTOR) }
        ELSE LET current_replicas == state.chunks[fingerprint].replicas
             IN  { IF ~r.ok THEN fail
                   ELSE IF r.nodes # _unique_nodes(current_replicas)
                   THEN Outcome(Append(w1, stored(r.nodes)), ok(r.nodes))
                   ELSE Outcome(w1, ok(r.nodes)) :
                     r \in _repair_chunk_replicas(current_replicas, alive_nodes) }

\* Mutant: the file record is stored without validating or repairing its
\* chunks.
file_commit_unvalidated(state0, file_name, chunks, now_ts) ==
    LET state == RefreshedState(state0, now_ts)
        w1 == RefreshWrites(state0, now_ts)
    IN  { Outcome(Append(w1, [state EXCEPT !.files =
                      Put(state.files, file_name, [chunks |-> chunks])]),
                  Resp("file_commit", file_name, 200, <<>>, FALSE, <<>>,
                       now_ts)) }

\* Mutant: the alive count is validated before the fingerprints.
file_commit_alive_first(state0, file_name, chunks, now_ts) ==
    LET state == RefreshedState(state0, now_ts)
        w1 == RefreshWrites(state0, now_ts)
        missing == SelectSeq(chunks, LAMBDA fp : fp \notin DOMAIN state.chunks)
        alive_nodes == get_alive_storage_nodes(state, now_ts)
        resp_of(code) == Resp("file_commit", file_name, code, <<>>, FALSE,
                              <<>>, now_ts)
        distinct == Range(chunks)
        repairs(fp) ==
            _repair_chunk_replicas(
                Get(state.chunks, fp, [replicas |-> <<>>]).replicas, alive_nodes)
        \* one repair outcome per distinct fingerprint (for fp in set(chunks))
        choices == { c \in [distinct -> UNION { repairs(fp) : fp \in distinct }] :
                       \A fp \in distinct : c[fp] \in repairs(fp) }
        committed(c) ==
            [state EXCEPT
                !.chunks = [fp \in (DOMAIN state.chunks) \cup distinct |->
                              IF fp \in distinct
                              THEN [replicas |-> c[fp].nodes]
                              ELSE state.chunks[fp]],
                !.files = Put(state.files, file_name, [chunks |-> chunks])]
    IN  IF Len(alive_nodes) < REPLICATION_FACTOR
        THEN { Outcome(w1, resp_of(500)) }
        ELSE IF missing # <<>>
        THEN { Outcome(w1, resp_of(400)) }
        ELSE { IF \E fp \in distinct : ~c[fp].ok
               THEN Outcome(w1, resp_of(500))
               ELSE Outcome(Append(w1, committed(c)), resp_of(200)) :
                 c \in choices }

\* Mutant: the file record is persisted before the alive count is validated.
file_commit_record_first(state0, file_name, chunks, now_ts) ==
    LET state == RefreshedState(state0, now_ts)
        w1 == RefreshWrites(state0, now_ts)
        missing == SelectSeq(chunks, LAMBDA fp : fp \notin DOMAIN state.chunks)
        alive_nodes == get_alive_storage_nodes(state, now_ts)
        resp_of(code) == Resp("file_commit", file_name, code, <<>>, FALSE,
                              <<>>, now_ts)
        distinct == Range(chunks)
        repairs(fp) ==
            _repair_chunk_replicas(
                Get(state.chunks, fp, [replicas |-> <<>>]).replicas, alive_nodes)
        \* one repair outcome per distinct fingerprint (for fp in set(chunks))
        choices == { c \in [distinct -> UNION { repairs(fp) : fp \in distinct }] :
                       \A fp \in distinct : c[fp] \in repairs(fp) }
        committed(c) ==
            [state EXCEPT
                !.chunks = [fp \in (DOMAIN state.chunks) \cup distinct |->
                              IF fp \in distinct
                              THEN [replicas |-> c[fp].nodes]
                              ELSE state.chunks[fp]],
                !.files = Put(state.files, file_name, [chunks |-> chunks])]
    IN  IF missing # <<>>
        THEN { Outcome(w1, resp_of(400)) }
        ELSE IF Len(alive_nodes) < REPLICATION_FACTOR
        THEN { Outcome(Append(w1, [state EXCEPT !.files =
                          Put(state.files, file_name, [chunks |-> chunks])]),
                       resp_of(500)) }
        ELSE { IF \E fp \in distinct : ~c[fp].ok
               THEN Outcome(w1, resp_of(500))
               ELSE Outcome(Append(w1, committed(c)), resp_of(200)) :
                 c \in choices }

\* Mutant: the commit keeps only the chunk records the file names.
file_commit_only_named(state0, file_name, chunks, now_ts) ==
    LET state == RefreshedState(state0, now_ts)
        w1 == RefreshWrites(state0, now_ts)
        missing == SelectSeq(chunks, LAMBDA fp : fp \notin DOMAIN state.chunks)
        alive_nodes == get_alive_storage_nodes(state, now_ts)
        resp_of(code) == Resp("file_commit", file_name, code, <<>>, FALSE,
                              <<>>, now_ts)
        distinct == Range(chunks)
        repairs(fp) ==
            _repair_chunk_replicas(
                Get(state.chunks, fp, [replicas |-> <<>>]).replicas, alive_nodes)
        choices == { c \in [distinct -> UNION { repairs(fp) : fp \in distinct }] :
                       \A fp \in distinct : c[fp] \in repairs(fp) }
        committed(c) ==
            [state EXCEPT
                !.chunks = [fp \in distinct |-> [replicas |-> c[fp].nodes]],
                !.files = Put(state.files, file_name, [chunks |-> chunks])]
    IN  IF missing # <<>>
        THEN { Outcome(w1, resp_of(400)) }
        ELSE IF Len(alive_nodes) < REPLICATION_FACTOR
        THEN { Outcome(w1, resp_of(500)) }
        ELSE { IF \E fp \in distinct : ~c[fp].ok
               THEN Outcome(w1, resp_of(500))
               ELSE Outcome(Append(w1, committed(c)), resp_of(200)) :
                 c \in choices }

\* Mutant: the commit repairs every chunk record of the catalog, not only
\* the ones the file names.
file_commit_repair_all(state0, file_name, chunks, now_ts) ==
    LET state == RefreshedState(state0, now_ts)
        w1 == RefreshWrites(state0, now_ts)
        missing == SelectSeq(chunks, LAMBDA fp : fp \notin DOMAIN state.chunks)
        alive_nodes == get_alive_storage_nodes(state, now_ts)
        resp_of(code) == Resp("file_commit", file_name, code, <<>>, FALSE,
                              <<>>, now_ts)
        distinct == Range(chunks) \cup DOMAIN state.chunks
        repairs(fp) ==
            _repair_chunk_replicas(
                Get(state.chunks, fp, [replicas |-> <<>>]).replicas, alive_nodes)
        choices == { c \in [distinct -> UNION { repairs(fp) : fp \in distinct }] :
                       \A fp \in distinct : c[fp] \in repairs(fp) }
        committed(c) ==
            [state EXCEPT
                !.chunks = [fp \in distinct |-> [replicas |-> c[fp].nodes]],
                !.files = Put(state.files, file_name, [chunks |-> chunks])]
    IN  IF missing # <<>>
        THEN { Outcome(w1, resp_of(400)) }
        ELSE IF Len(alive_nodes) < REPLICATION_FACTOR
        THEN { Outcome(w1, resp_of(500)) }
        ELSE { IF \E fp \in distinct : ~c[fp].ok
               THEN Outcome(w1, resp_of(500))
               ELSE Outcome(Append(w1, committed(c)), resp_of(200)) :
                 c \in choices }

file_commit(state0, file_name, chunks, now_ts) ==
    LET state == RefreshedState(state0, now_ts)
        w1 == RefreshWrites(state0, now_ts)
        missing == SelectSeq(chunks, LAMBDA fp : fp \notin DOMAIN state.chunks)
        alive_nodes == get_alive_storage_nodes(state, now_ts)
        resp_of(code) == Resp("file_commit", file_name, code, <<>>, FALSE,
                              <<>>, now_ts)
        distinct == Range(chunks)
        repairs(fp) ==
            _repair_chunk_replicas(
                Get(state.chunks, fp, [replicas |-> <<>>]).replicas, alive_nodes)
        \* one repair outcome per distinct fingerprint (for fp in set(chunks))
        choices == { c \in [distinct -> UNION { repairs(fp) : fp \in distinct }] :
                       \A fp \in distinct : c[fp] \in repairs(fp) }
        committed(c) ==
            [state EXCEPT
                !.chunks = [fp \in (DOMAIN state.chunks) \cup distinct |->
                              IF fp \in distinct
                              THEN [replicas |-> c[fp].nodes]
                              ELSE state.chunks[fp]],
                !.files = Put(state.files, file_name, [chunks |-> chunks])]
    IN  IF missing # <<>>
        THEN { Outcome(w1, resp_of(400)) }
        ELSE IF Len(alive_nodes) < REPLICATION_FACTOR
        THEN { Outcome(w1, resp_of(500)) }
        ELSE { IF \E fp \in distinct : ~c[fp].ok
               THEN Outcome(w1, resp_of(500))
               ELSE Outcome(Append(w1, committed(c)), resp_of(200)) :
                 c \in choices }

\* Mutant: each distinct fingerprint of the file is listed once.
file_get_distinct(state0, file_name, now_ts) ==
    LET state == RefreshedState(state0, now_ts)
        w1 == RefreshWrites(state0, now_ts)
        fps == _unique_nodes(
                  Get(state.files, file_name, [chunks |-> <<>>]).chunks)
        out == [i \in 1..Len(fps) |->
                  [fingerprint |-> fps[i],
                   locations |-> AliveReplicas(state, fps[i], now_ts)]]
    IN  IF file_name \notin DOMAIN state.files
        THEN { Outcome(w1, Resp("file_get", file_name, 404, <<>>, FALSE, <<>>,
                                now_ts)) }
        ELSE { Outcome(w1, Resp("file_get", file_name, 200, <<>>, FALSE, out,
                                now_ts)) }

file_get(state0, file_name, now_ts) ==
    LET state == RefreshedState(state0, now_ts)
        w1 == RefreshWrites(state0, now_ts)
        fps == Get(state.files, file_name, [chunks |-> <<>>]).chunks
        out == [i \in 1..Len(fps) |->
                  [fingerprint |-> fps[i],
                   locations |-> AliveReplicas(state, fps[i], now_ts)]]
    IN  IF file_name \notin DOMAIN state.files
        THEN { Outcome(w1, Resp("file_get", file_name, 404, <<>>, FALSE, <<>>,
                                now_ts)) }
        ELSE { Outcome(w1, Resp("file_get", file_name, 200, <<>>, FALSE, out,
                                now_ts)) }

\* req.node_id.strip() on the node ids the model sends
Strip(raw) ==
    CASE raw = " s1 " -> "s1"
      [] raw = " " -> ""
      [] OTHER -> raw

\* Mutant: only an empty node_id is rejected.
heartbeat_rejected_empty_only(raw) == Strip(raw) = ""

\* storage_heartbeat's validation, before any load: the 400 responses.
heartbeat_rejected(raw) ==
    LET node_id == Strip(raw)
    IN  node_id = "" \/ node_id \notin Range(STORAGE_NODES)

storage_heartbeat(state0, raw, now_ts) ==
    LET node_id == Strip(raw)
        refreshed == refresh_storage_membership(state0, now_ts)
        state == mark_storage_heartbeat(refreshed, node_id, now_ts)
        changed == refresh_changed(state0, now_ts)
                   \/ mark_changed(refreshed, node_id, now_ts)
        snapshot == get_membership_snapshot(state, now_ts)
    IN  { Outcome(IF changed THEN <<state>> ELSE <<>>,
                  Resp("storage_heartbeat", node_id, 200, <<>>, FALSE,
                       <<snapshot[node_id].last_heartbeat_at>>, now_ts)) }

debug_membership(state0, now_ts) ==
    LET state == refresh_storage_membership(state0, now_ts)
    IN  { Outcome(RefreshWrites(state0, now_ts),
                  Resp("debug_membership", "", 200, <<>>, FALSE, <<>>, now_ts)) }

\* The handler a request is routed to.
Outcomes(req, state0, now_ts) ==
    CASE req.op = "chunk_check" -> chunk_check(state0, req.key, now_ts)
      [] req.op = "chunk_register" -> chunk_register(state0, req.key, now_ts)
      [] req.op = "file_commit" -> file_commit(state0, req.key, req.fps, now_ts)
      [] req.op = "file_get" -> file_get(state0, req.key, now_ts)
      [] req.op = "storage_heartbeat" -> storage_heartbeat(state0, req.key, now_ts)
      [] req.op = "debug_membership" -> debug_membership(state0, now_ts)

(***************************************************************************)
(* State after construction: no catalog file yet, no request handled.      *)
(***************************************************************************)
Procs == {1, 2}

NoReq == Req("none", "", <<>>)

Idle ==
    [pc |-> "idle", req |-> NoReq, state0 |-> InitContent,
     writes |-> <<>>, resp |-> NoResp, fd |-> "none", off |-> 0,
     doc |-> InitContent, ret |-> "none", served |-> 0]

NotRegistered == [valid |-> FALSE, nodes |-> <<>>]

NothingAcked ==
    [chunks |-> {}, files |-> EmptyMap,
     beats |-> [n \in Range(STORAGE_NODES) |-> -1]]

\* No call of the placement engine on its own.
NoCall ==
    [stage |-> "none", current |-> <<>>, alive |-> <<>>,
     first |-> [ok |-> FALSE, nodes |-> <<>>],
     second |-> [ok |-> FALSE, nodes |-> <<>>]]

Init ==
    /\ REPLICATION_FACTOR \in ReplicationFactors
    /\ now = 0
    /\ meta = NoFile
    /\ tmp = NoFile
    /\ resp = NoResp
    /\ registered = [fp \in Fingerprints |-> NotRegistered]
    /\ acked = NothingAcked
    /\ procs = [p \in Procs |-> Idle]
    /\ request = NoReq
    /\ call = NoCall

(***************************************************************************)
(* History variables, updated when a request completes.                    *)
(***************************************************************************)
StatusMap(doc) ==
    [n \in DOMAIN doc.membership |-> doc.membership[n].status]

\* The handler saw or made a membership status change: the document it
\* loaded and the last one it persisted differ in some node's status.
StatusChanged(state0, writes) ==
    /\ writes # <<>>
    /\ StatusMap(writes[Len(writes)]) # StatusMap(state0)

Acked(req, r) ==
    [chunks |-> IF r.op = "chunk_register" /\ r.code = 200
                THEN acked.chunks \cup {r.key}
                ELSE acked.chunks,
     files |-> IF r.op = "file_commit" /\ r.code = 200
               THEN Put(acked.files, r.key, req.fps)
               ELSE acked.files,
     beats |-> IF r.op = "storage_heartbeat" /\ r.code = 200
               THEN [acked.beats EXCEPT ![r.key] = r.at]
               ELSE acked.beats]

Complete(req, state0, o) ==
    LET base == IF StatusChanged(state0, o.writes)
                THEN [fp \in Fingerprints |-> NotRegistered]
                ELSE registered
    IN  /\ resp' = o.resp
        /\ registered' =
             IF o.resp.op = "chunk_register" /\ o.resp.code = 200
             THEN [base EXCEPT ![o.resp.key] =
                     [valid |-> TRUE, nodes |-> o.resp.nodes]]
             ELSE base
        /\ acked' = Acked(req, o.resp)
        /\ request' = req

(***************************************************************************)
(* Spec: one request at a time, each handler one atomic action.            *)
(***************************************************************************)
\* Mutant: a file that does not parse is initialised again.
EnsuredFile_reinit ==
    IF meta.exists /\ Parses(meta.data) THEN meta ELSE FileOf(InitContent)

\* ensure_metadata_file, run to completion: the file load_state reads.
EnsuredFile == IF meta.exists THEN meta ELSE FileOf(InitContent)

\* persist_state run to completion, for each document the handler persists:
\* the temp file is written and renamed over the canonical file.
Handle(req) ==
    /\ \A p \in Procs : procs[p].pc = "idle"
    /\ resp = NoResp
    /\ IF ~Parses(EnsuredFile.data)
       THEN /\ meta' = EnsuredFile
            /\ resp' = ErrorResp(req, 500, "RuntimeError", now)
            /\ request' = req
            /\ UNCHANGED <<registered, acked>>
       ELSE \E o \in Outcomes(req, Parsed(EnsuredFile.data), now) :
              /\ meta' = IF o.writes = <<>>
                         THEN EnsuredFile
                         ELSE FileOf(o.writes[Len(o.writes)])
              /\ Complete(req, Parsed(EnsuredFile.data), o)
    /\ UNCHANGED <<REPLICATION_FACTOR, now, tmp, procs, call>>

ChunkCheck == \E fp \in Fingerprints : Handle(Req("chunk_check", fp, <<>>))

ChunkRegister == \E fp \in Fingerprints : Handle(Req("chunk_register", fp, <<>>))

FileCommit ==
    \E name \in FileNames, chunks \in ChunkLists :
        Handle(Req("file_commit", name, chunks))

FileGet == \E name \in FileNames : Handle(Req("file_get", name, <<>>))

StorageHeartbeat ==
    \E raw \in HeartbeatIds :
        IF heartbeat_rejected(raw)
        THEN /\ \A p \in Procs : procs[p].pc = "idle"
             /\ resp = NoResp
             /\ resp' = ErrorResp(Req("storage_heartbeat", raw, <<>>), 400,
                                  "HTTPException", now)
             /\ request' = Req("storage_heartbeat", raw, <<>>)
             /\ UNCHANGED <<REPLICATION_FACTOR, now, meta, tmp, registered,
                            acked, procs, call>>
        ELSE Handle(Req("storage_heartbeat", raw, <<>>))

DebugMembership == Handle(Req("debug_membership", "", <<>>))

\* The caller takes the response; the server handles the next request.
Deliver ==
    /\ resp # NoResp
    /\ resp' = NoResp
    /\ request' = NoReq
    /\ UNCHANGED <<REPLICATION_FACTOR, now, meta, tmp, registered, acked, procs,
                   call>>

\* The heartbeat history keeps a heartbeat while it is no older than the
\* timeout.
Recent(beats, now_ts) ==
    [n \in DOMAIN beats |->
        IF now_ts - beats[n] > HEARTBEAT_TIMEOUT_SEC THEN -1 ELSE beats[n]]

\* Time passes between requests.
Tick ==
    /\ now < MaxTime
    /\ resp = NoResp
    /\ now' = now + 1
    /\ acked' = [acked EXCEPT !.beats = Recent(acked.beats, now + 1)]
    /\ UNCHANGED <<REPLICATION_FACTOR, meta, tmp, resp, registered, procs,
                   request, call>>

Next ==
    \/ ChunkCheck
    \/ ChunkRegister
    \/ FileCommit
    \/ FileGet
    \/ StorageHeartbeat
    \/ DebugMembership
    \/ Deliver
    \/ Tick

Spec == Init /\ [][Next]_vars

(***************************************************************************)
(* SpecLive: Spec with one replication factor, under the scheduling the    *)
(* detection of a dead node relies on: the server returns every response   *)
(* (Deliver), and catalog-reading requests keep arriving: whenever the     *)
(* server is free again and again, a request to a route that goes through  *)
(* _load_state_with_membership_refresh is taken up again and again.        *)
(* Nothing is assumed about heartbeats or about the clock.                 *)
(***************************************************************************)
CatalogReads ==
    { Req("chunk_check", fp, <<>>) : fp \in Fingerprints }
    \cup { Req("chunk_register", fp, <<>>) : fp \in Fingerprints }
    \cup { Req("file_commit", name, chunks) :
             name \in FileNames, chunks \in ChunkLists }
    \cup { Req("file_get", name, <<>>) : name \in FileNames }

\* The server, free, takes up a catalog-reading request.
CatalogReadArrives ==
    /\ \A p \in Procs : procs[p].pc = "idle"
    /\ resp = NoResp
    /\ request' \in CatalogReads

InitLive == Init /\ REPLICATION_FACTOR = 1

SpecLive ==
    /\ InitLive
    /\ [][Next]_vars
    /\ WF_vars(Deliver)
    /\ SF_request(CatalogReadArrives)

(***************************************************************************)
(* The handlers step by step: each file operation of load_state and        *)
(* persist_state is one step of the handler's thread. The code takes no    *)
(* lock, so the steps of two handlers interleave freely.                   *)
(*                                                                         *)
(* procs[p].fd says where the file the thread has open for writing now     *)
(* lives: at the path "meta", at the path "tmp", or "unlinked" (another    *)
(* rename replaced it; its blocks are visible to nobody).                  *)
(***************************************************************************)
\* The requests the stepwise runs send.
StepRequests ==
    { Req("chunk_register", "a", <<>>), Req("chunk_register", "b", <<>>),
      Req("file_commit", "f", <<"a">>), Req("storage_heartbeat", "sx", <<>>) }

Others == <<REPLICATION_FACTOR, now, resp, registered, acked, request, call>>

\* The handler is entered; storage_heartbeat validates node_id first.
Start(p) ==
    /\ procs[p].pc = "idle"
    /\ procs[p].served < MaxServed
    /\ \E req \in StepRequests :
         procs' = [procs EXCEPT ![p] =
            IF req.op = "storage_heartbeat" /\ heartbeat_rejected(req.key)
            THEN [procs[p] EXCEPT !.pc = "respond", !.req = req,
                     !.served = procs[p].served + 1,
                     !.resp = ErrorResp(req, 400, "HTTPException", now)]
            ELSE [procs[p] EXCEPT !.pc = "ensure_check", !.req = req,
                     !.served = procs[p].served + 1,
                     !.ret = "read"]]
    /\ UNCHANGED <<meta, tmp>>
    /\ UNCHANGED Others

\* ensure_metadata_file: if not METADATA_FILE.exists()
EnsureCheck(p) ==
    /\ procs[p].pc = "ensure_check"
    /\ procs' = [procs EXCEPT ![p].pc =
                    IF meta.exists THEN procs[p].ret ELSE "ensure_open"]
    /\ UNCHANGED <<meta, tmp>>
    /\ UNCHANGED Others

\* ensure_metadata_file: METADATA_FILE.write_text(...) opens the canonical
\* path for writing, which creates the file, or truncates it when another
\* thread created it since the check.
EnsureOpen(p) ==
    /\ procs[p].pc = "ensure_open"
    /\ meta' = [exists |-> TRUE, data |-> <<>>]
    /\ procs' = [q \in Procs |->
                   IF q = p
                   THEN [procs[p] EXCEPT !.pc = "write", !.fd = "meta",
                            !.off = 0, !.doc = InitContent]
                   ELSE procs[q]]
    /\ UNCHANGED tmp
    /\ UNCHANGED Others

\* write_text: the next block of the document goes to the open file; after
\* the last one the file is closed.
WriteBlock(p) ==
    LET pos == procs[p].off + 1
        block == Render(procs[p].doc)[pos]
        last == pos = NumBlocks
    IN  /\ procs[p].pc = "write"
        /\ meta' = IF procs[p].fd = "meta" THEN WriteAt(meta, pos, block) ELSE meta
        /\ tmp' = IF procs[p].fd = "tmp" THEN WriteAt(tmp, pos, block) ELSE tmp
        /\ procs' = [procs EXCEPT ![p] =
              IF last
              THEN [procs[p] EXCEPT !.off = 0, !.fd = "none",
                       !.pc = IF procs[p].writes = <<>>
                              THEN procs[p].ret ELSE "rename"]
              ELSE [procs[p] EXCEPT !.off = pos]]
        /\ UNCHANGED Others

\* load_state: json.loads(METADATA_FILE.read_text()), then the handler's
\* body, which decides in memory what it will persist and answer.
Read(p) ==
    /\ procs[p].pc = "read"
    /\ IF ~meta.exists
       THEN procs' = [procs EXCEPT ![p].pc = "respond",
                         ![p].resp = ErrorResp(procs[p].req, 500,
                                               "FileNotFoundError", now)]
       ELSE IF ~Parses(meta.data)
       THEN procs' = [procs EXCEPT ![p].pc = "respond",
                         ![p].resp = ErrorResp(procs[p].req, 500,
                                               "RuntimeError", now)]
       ELSE \E o \in Outcomes(procs[p].req, Parsed(meta.data), now) :
              procs' = [procs EXCEPT ![p] =
                 [procs[p] EXCEPT
                     !.state0 = Parsed(meta.data),
                     !.writes = o.writes,
                     !.resp = o.resp,
                     !.ret = "persist_open",
                     !.pc = IF o.writes = <<>> THEN "respond"
                            ELSE "ensure_check"]]
    /\ UNCHANGED <<meta, tmp>>
    /\ UNCHANGED Others

\* persist_state: temp_path.write_text(...) opens the temp path for writing,
\* which creates the file or truncates the one another thread is writing.
PersistOpen(p) ==
    /\ procs[p].pc = "persist_open"
    /\ tmp' = [exists |-> TRUE, data |-> <<>>]
    /\ procs' = [procs EXCEPT ![p] =
                   [procs[p] EXCEPT !.pc = "write", !.fd = "tmp", !.off = 0,
                       !.doc = Head(procs[p].writes)]]
    /\ UNCHANGED meta
    /\ UNCHANGED Others

\* persist_state: temp_path.replace(METADATA_FILE). The rename moves the
\* temp file, and every thread's open handle on it, to the canonical path;
\* it raises FileNotFoundError when the temp path is gone.
Rename(p) ==
    /\ procs[p].pc = "rename"
    /\ IF tmp.exists
       THEN /\ meta' = tmp
            /\ tmp' = NoFile
            /\ procs' = [q \in Procs |->
                  LET fd == CASE procs[q].fd = "tmp" -> "meta"
                              [] procs[q].fd = "meta" -> "unlinked"
                              [] OTHER -> procs[q].fd
                  IN  IF q = p
                      THEN [procs[p] EXCEPT
                               !.writes = Tail(procs[p].writes),
                               !.pc = IF Tail(procs[p].writes) = <<>>
                                      THEN "respond" ELSE "ensure_check"]
                      ELSE [procs[q] EXCEPT !.fd = fd]]
       ELSE /\ procs' = [procs EXCEPT ![p].pc = "respond",
                            ![p].writes = <<>>,
                            ![p].resp = ErrorResp(procs[p].req, 500,
                                                  "FileNotFoundError", now)]
            /\ UNCHANGED <<meta, tmp>>
    /\ UNCHANGED Others

\* The handler returns; its response goes to the caller.
Respond(p) ==
    /\ procs[p].pc = "respond"
    /\ resp' = procs[p].resp
    /\ acked' = Acked(procs[p].req, procs[p].resp)
    /\ request' = procs[p].req
    /\ procs' = [procs EXCEPT ![p] =
                   [Idle EXCEPT !.served = procs[p].served]]
    /\ UNCHANGED <<REPLICATION_FACTOR, now, meta, tmp, registered, call>>

\* The meta process dies: its threads and open files are gone, the files
\* on disk stay as they are. The process is started again.
Crash ==
    /\ \E p \in Procs : procs[p].pc # "idle"
    /\ procs' = [p \in Procs |-> Idle]
    /\ UNCHANGED <<REPLICATION_FACTOR, now, meta, tmp, resp, registered, acked,
                   request, call>>

\* SpecCrash: one handler at a time, from a data directory with no catalog
\* file, with R = 1.
InitCrash == Init /\ REPLICATION_FACTOR = 1

NextCrash ==
    \/ Start(1)
    \/ EnsureCheck(1)
    \/ EnsureOpen(1)
    \/ WriteBlock(1)
    \/ Read(1)
    \/ PersistOpen(1)
    \/ Rename(1)
    \/ Respond(1)
    \/ Crash

SpecCrash == InitCrash /\ [][NextCrash]_vars

\* SpecConc: two handler threads, from a data directory that holds the
\* freshly initialised catalog file, with R = 1. The canonical file exists
\* from the start and no step removes it, so ensure_metadata_file never
\* writes in these runs.
InitConc ==
    /\ REPLICATION_FACTOR = 1
    /\ now = 0
    /\ meta = FileOf(InitContent)
    /\ tmp = NoFile
    /\ resp = NoResp
    /\ registered = [fp \in Fingerprints |-> NotRegistered]
    /\ acked = NothingAcked
    /\ procs = [p \in Procs |-> Idle]
    /\ request = NoReq
    /\ call = NoCall

NextConc ==
    \E p \in Procs :
        \/ Start(p)
        \/ EnsureCheck(p)
        \/ WriteBlock(p)
        \/ Read(p)
        \/ PersistOpen(p)
        \/ Rename(p)
        \/ Respond(p)

SpecConc == InitConc /\ [][NextConc]_vars

(***************************************************************************)
(* SpecCorrupt: the requests of Spec, one after the other, served from a   *)
(* data directory whose catalog file exists and does not parse: an empty   *)
(* or cut-off file, as a crash in ensure_metadata_file leaves it, or the   *)
(* blocks of two documents mixed.                                          *)
(***************************************************************************)
CorruptDocs == {InitContent, refresh_storage_membership(InitContent, 0)}

\* The blocks of a document cut off before the last one, and the blocks of
\* one document with the last block of another.
CutOrMixed ==
    { SubSeq(Render(d), 1, k) : d \in CorruptDocs, k \in 0..(NumBlocks - 1) }
    \cup
    { [i \in 1..NumBlocks |->
         IF i = NumBlocks THEN Render(d2)[i] ELSE Render(d1)[i]] :
       d1 \in CorruptDocs, d2 \in CorruptDocs }

CorruptFiles ==
    { [exists |-> TRUE, data |-> data] :
        data \in { x \in CutOrMixed : ~Parses(x) } }

InitCorrupt ==
    /\ REPLICATION_FACTOR \in ReplicationFactors
    /\ now = 0
    /\ meta \in CorruptFiles
    /\ tmp = NoFile
    /\ resp = NoResp
    /\ registered = [fp \in Fingerprints |-> NotRegistered]
    /\ acked = NothingAcked
    /\ procs = [p \in Procs |-> Idle]
    /\ request = NoReq
    /\ call = NoCall

SpecCorrupt == InitCorrupt /\ [][Next]_vars

(***************************************************************************)
(* SpecLegacy: the requests of Spec, one after the other, served from a    *)
(* catalog that an earlier deployment left behind: its membership has an   *)
(* entry with status suspected, an entry marked dead, an entry of a node   *)
(* that is no longer configured, and no entry for the configured node s3.  *)
(***************************************************************************)
LegacyFactors == {1}

\* An entry as the earlier deployment wrote it at time 0.
LegacyEntry(status) ==
    [ status |-> status,
      last_heartbeat_ts |-> 0,
      last_heartbeat_at |-> _timestamp_to_iso(0) ]

LegacyMemberships ==
    { [n \in {"s1", "s2", "sx"} |->
         LegacyEntry(CASE n = "s1" -> "suspected"
                       [] n = "s2" -> "alive"
                       [] OTHER -> "alive")],
      [n \in {"s1", "s2", "sx"} |->
         LegacyEntry(CASE n = "s1" -> "alive"
                       [] n = "s2" -> "dead"
                       [] OTHER -> "suspected")] }

LegacyDocs ==
    { [InitContent EXCEPT !.membership = m] : m \in LegacyMemberships }

InitLegacy ==
    /\ REPLICATION_FACTOR \in LegacyFactors
    /\ now = 0
    /\ meta \in { FileOf(doc) : doc \in LegacyDocs }
    /\ tmp = NoFile
    /\ resp = NoResp
    /\ registered = [fp \in Fingerprints |-> NotRegistered]
    /\ acked = NothingAcked
    /\ procs = [p \in Procs |-> Idle]
    /\ request = NoReq
    /\ call = NoCall

SpecLegacy == InitLegacy /\ [][Next]_vars

(***************************************************************************)
(* SpecCommit: file_commit on a catalog in use. Both fingerprints were     *)
(* registered at time 0 on R nodes each and the file g was committed; by   *)
(* the commit time each node has either sent a heartbeat just now, or is   *)
(* still persisted alive with its heartbeat of time 0, or has been swept   *)
(* dead.                                                                   *)
(***************************************************************************)
CommitFactors == {1, 2}

CommitTime == HEARTBEAT_TIMEOUT_SEC + 1

CommitEntries ==
    { _new_membership_entry(CommitTime, "alive"),
      _new_membership_entry(0, "alive"),
      _new_membership_entry(0, "dead") }

CommitDocs(R) ==
    { [ files |-> Put(EmptyMap, "g", [chunks |-> <<"b">>]),
        chunks |-> [fp \in Fingerprints |->
                      [replicas |-> IF fp = "a" THEN la ELSE lb]],
        membership |-> m,
        version |-> 1 ] :
        la \in Sample(STORAGE_NODES, R),
        lb \in Sample(STORAGE_NODES, R),
        m \in [Range(STORAGE_NODES) -> CommitEntries] }

InitCommit ==
    /\ REPLICATION_FACTOR \in CommitFactors
    /\ now = CommitTime
    /\ meta \in { FileOf(doc) : doc \in CommitDocs(REPLICATION_FACTOR) }
    /\ tmp = NoFile
    /\ resp = NoResp
    /\ registered = [fp \in Fingerprints |-> NotRegistered]
    /\ acked = NothingAcked
    /\ procs = [p \in Procs |-> Idle]
    /\ request = NoReq
    /\ call = NoCall

NextCommit ==
    \/ FileCommit
    \/ Deliver

SpecCommit == InitCommit /\ [][NextCommit]_vars

(***************************************************************************)
(* SpecRepair: _repair_chunk_replicas on its own, applied to a stored list *)
(* and an alive list, then applied again to its result with the same alive *)
(* list.                                                                   *)
(***************************************************************************)
\* What a stored replica list can hold: configured nodes, a node that is no
\* longer configured, an empty string; repeated or not.
NodeWords == Range(STORAGE_NODES) \cup {"sx", ""}

CurrentLists == UNION { [1..k -> NodeWords] : k \in 0..MaxCurrent }

\* What get_alive_storage_nodes returns: configured nodes, each once, in
\* the order of STORAGE_NODES.
AliveLists ==
    { SelectSeq(STORAGE_NODES, LAMBDA n : n \in S) :
        S \in SUBSET Range(STORAGE_NODES) }

InitRepair ==
    /\ REPLICATION_FACTOR \in ReplicationFactors
    /\ now = 0
    /\ meta = NoFile
    /\ tmp = NoFile
    /\ resp = NoResp
    /\ registered = [fp \in Fingerprints |-> NotRegistered]
    /\ acked = NothingAcked
    /\ procs = [p \in Procs |-> Idle]
    /\ request = NoReq
    /\ \E current \in CurrentLists, alive \in AliveLists :
         call = [NoCall EXCEPT !.stage = "args", !.current = current,
                               !.alive = alive]

Repair ==
    /\ call.stage = "args"
    /\ \E r \in _repair_chunk_replicas(call.current, call.alive) :
         call' = [call EXCEPT !.stage = "once", !.first = r]
    /\ UNCHANGED <<REPLICATION_FACTOR, now, meta, tmp, resp, registered, acked,
                   procs, request>>

RepairAgain ==
    /\ call.stage = "once"
    /\ call.first.ok
    /\ \E r \in _repair_chunk_replicas(call.first.nodes, call.alive) :
         call' = [call EXCEPT !.stage = "twice", !.second = r]
    /\ UNCHANGED <<REPLICATION_FACTOR, now, meta, tmp, resp, registered, acked,
                   procs, request>>

NextRepair ==
    \/ Repair
    \/ RepairAgain

SpecRepair == InitRepair /\ [][NextRepair]_vars

(***************************************************************************)
(* The persisted catalog, as a load of the canonical file returns it.      *)
(***************************************************************************)
Catalog ==
    IF meta.exists /\ Parses(meta.data) THEN Parsed(meta.data) ELSE InitContent

Replicas(fp) == Catalog.chunks[fp].replicas

\* The configured nodes whose persisted status is alive.
AliveNow ==
    { n \in Range(STORAGE_NODES) :
        /\ n \in DOMAIN Catalog.membership
        /\ Catalog.membership[n].status = "alive" }

DeadNow ==
    { n \in Range(STORAGE_NODES) :
        /\ n \in DOMAIN Catalog.membership
        /\ Catalog.membership[n].status = "dead" }

\* The nodes a response hands out.
Listed(r) ==
    IF r.code # 200 THEN {}
    ELSE IF r.op \in {"chunk_register", "chunk_check"} THEN Range(r.nodes)
    ELSE IF r.op = "file_get"
    THEN UNION { Range(r.items[i].locations) : i \in DOMAIN r.items }
    ELSE {}

\* A response that carries an exception of load_state or persist_state.
IsIOError(r) == r.code = 500 /\ r.items # <<>>

(***************************************************************************)
(* C1. Catalog integrity: every fingerprint listed in a file record of the *)
(* persisted catalog is a key of the chunk record.                         *)
(***************************************************************************)
C1_CatalogIntegrity ==
    \A name \in DOMAIN Catalog.files :
        \A i \in DOMAIN Catalog.files[name].chunks :
            Catalog.files[name].chunks[i] \in DOMAIN Catalog.chunks

\* A file of three chunks over two fingerprints has been committed.
C1_Witness ==
    \E name \in DOMAIN Catalog.files :
        /\ Len(Catalog.files[name].chunks) = 3
        /\ Cardinality(Range(Catalog.files[name].chunks)) = 2

(***************************************************************************)
(* C2. No dead node is handed out: every node listed by chunk_register,    *)
(* chunk_check or file_get is a configured node that is alive after the    *)
(* request's sweep, and its last heartbeat is not older than the timeout   *)
(* at request time.                                                        *)
(***************************************************************************)
C2_NoDeadNodeHandedOut ==
    \A n \in Listed(resp) :
        /\ n \in Range(STORAGE_NODES)
        /\ n \in AliveNow
        /\ resp.at - Catalog.membership[n].last_heartbeat_ts
              <= HEARTBEAT_TIMEOUT_SEC

\* file_get lists locations while a stored replica of the file is dead.
C2_Witness ==
    /\ resp.op = "file_get"
    /\ Listed(resp) # {}
    /\ \E i \in DOMAIN resp.items :
         Range(Replicas(resp.items[i].fingerprint)) \cap DeadNow # {}

(***************************************************************************)
(* C3. Catalog mutations appear serialized: a chunk_register or            *)
(* file_commit that completed successfully is never undone by another      *)
(* handler's persist of a state loaded earlier. Stated for two concurrent  *)
(* handlers: whenever the canonical file holds a document, it holds every  *)
(* acknowledged fingerprint and every acknowledged file.                   *)
(***************************************************************************)
C3_MutationsSerialized ==
    (meta.exists /\ Parses(meta.data)) =>
        /\ acked.chunks \subseteq DOMAIN Catalog.chunks
        /\ DOMAIN acked.files \subseteq DOMAIN Catalog.files

(***************************************************************************)
(* C4. Crash atomicity: whenever the process is at rest or has crashed     *)
(* during a write, the canonical file is absent (the state before its      *)
(* first creation) or holds one complete document.                         *)
(***************************************************************************)
C4_CrashAtomic ==
    (\A p \in Procs : procs[p].pc = "idle") =>
        (meta.exists => Parses(meta.data))

(***************************************************************************)
(* C5. Readers never observe a partial write: with handlers running        *)
(* concurrently the canonical file always holds one complete document, no  *)
(* load fails, and no persist fails because the other thread renamed the   *)
(* shared temp file.                                                       *)
(***************************************************************************)
C5_NoPartialRead ==
    /\ meta.exists /\ Parses(meta.data)
    /\ \A p \in Procs : ~IsIOError(procs[p].resp)

(***************************************************************************)
(* C6. Replica uniqueness: every persisted replica list is duplicate-free  *)
(* and holds configured nodes only.                                        *)
(***************************************************************************)
C6_ReplicaUniqueness ==
    \A fp \in DOMAIN Catalog.chunks :
        /\ \A i, j \in DOMAIN Replicas(fp) :
              i # j => Replicas(fp)[i] # Replicas(fp)[j]
        /\ Range(Replicas(fp)) \subseteq Range(STORAGE_NODES)

\* A chunk_register repaired a list: it answers two alive nodes while a
\* third node is dead.
C6_Witness ==
    /\ resp.op = "chunk_register" /\ resp.code = 200
    /\ Len(Replicas(resp.key)) = 2
    /\ DeadNow # {}
    /\ ~registered["a"].valid \/ ~registered["b"].valid

(***************************************************************************)
(* C7. Replica count: every persisted replica list has at most R entries;  *)
(* the chunk of a successful chunk_register and every chunk named by a     *)
(* successful file_commit has exactly R.                                   *)
(***************************************************************************)
C7_ReplicaCount ==
    /\ \A fp \in DOMAIN Catalog.chunks : Len(Replicas(fp)) <= REPLICATION_FACTOR
    /\ (resp.op = "chunk_register" /\ resp.code = 200) =>
          /\ resp.key \in DOMAIN Catalog.chunks
          /\ Len(Replicas(resp.key)) = REPLICATION_FACTOR
    /\ (resp.op = "file_commit" /\ resp.code = 200) =>
          \A fp \in Range(acked.files[resp.key]) :
              /\ fp \in DOMAIN Catalog.chunks
              /\ Len(Replicas(fp)) = REPLICATION_FACTOR

\* A file_commit succeeded with R = 2 while a node is dead.
C7_Witness ==
    /\ resp.op = "file_commit" /\ resp.code = 200
    /\ REPLICATION_FACTOR = 2
    /\ DeadNow # {}

(***************************************************************************)
(* C8. chunk_check: exists is true iff the fingerprint is recorded and at  *)
(* least R of its stored replicas are alive after the sweep; locations is  *)
(* the stored list filtered to alive nodes, in stored order, and empty for *)
(* an unknown fingerprint.                                                 *)
(***************************************************************************)
C8_ChunkCheck ==
    resp.op = "chunk_check" =>
        /\ resp.code = 200
        /\ IF resp.key \in DOMAIN Catalog.chunks
           THEN /\ resp.nodes = Filter(Replicas(resp.key), AliveNow)
                /\ resp.exists <=>
                     Cardinality(Range(Replicas(resp.key)) \cap AliveNow)
                        >= REPLICATION_FACTOR
           ELSE /\ resp.nodes = <<>>
                /\ ~resp.exists

\* chunk_check of a recorded chunk answers exists = false with one
\* location left.
C8_Witness ==
    /\ resp.op = "chunk_check"
    /\ resp.key \in DOMAIN Catalog.chunks
    /\ ~resp.exists
    /\ Len(resp.nodes) = 1

(***************************************************************************)
(* C9. Check after register: a chunk_check of a fingerprint whose          *)
(* chunk_register succeeded, with no membership status change since        *)
(* (the check's own sweep included), answers exists = true and the         *)
(* replica list the register returned.                                     *)
(***************************************************************************)
C9_CheckAfterRegister ==
    (resp.op = "chunk_check" /\ registered[resp.key].valid) =>
        /\ resp.exists
        /\ resp.nodes = registered[resp.key].nodes

\* Such a check, of a chunk with two replicas, after time has passed.
C9_Witness ==
    /\ resp.op = "chunk_check"
    /\ registered[resp.key].valid
    /\ Len(registered[resp.key].nodes) = 2
    /\ resp.at > 0

(***************************************************************************)
(* C10. Round trip: file_get of a name whose last successful file_commit   *)
(* stored fps returns Len(fps) items whose fingerprints are fps, position  *)
(* by position.                                                            *)
(***************************************************************************)
C10_RoundTrip ==
    (resp.op = "file_get" /\ resp.key \in DOMAIN acked.files) =>
        /\ resp.code = 200
        /\ Len(resp.items) = Len(acked.files[resp.key])
        /\ \A i \in DOMAIN resp.items :
              resp.items[i].fingerprint = acked.files[resp.key][i]

\* file_get returns a file that repeats a fingerprint.
C10_Witness ==
    /\ resp.op = "file_get" /\ resp.code = 200
    /\ Len(resp.items) = 3
    /\ resp.items[1].fingerprint = resp.items[3].fingerprint
    /\ resp.items[1].fingerprint # resp.items[2].fingerprint

(***************************************************************************)
(* C11. Register idempotence: a successful chunk_register of a fingerprint *)
(* whose earlier chunk_register succeeded, with no membership status       *)
(* change since (this call's sweep included), returns the list the earlier *)
(* call returned, nodes and order, and leaves the files and chunks         *)
(* sections of the persisted catalog as they were.                         *)
(***************************************************************************)
C11_RegisterIdempotence ==
    [][ ( /\ resp'.op = "chunk_register" /\ resp'.code = 200
          /\ registered[resp'.key].valid
          /\ StatusMap(Catalog') = StatusMap(Catalog) )
        => /\ resp'.nodes = registered[resp'.key].nodes
           /\ Catalog'.files = Catalog.files
           /\ Catalog'.chunks = Catalog.chunks ]_vars

\* A second register answers a list of one node while two nodes are alive,
\* after time has passed and a file has been committed.
C11_Witness ==
    /\ resp.op = "chunk_register" /\ resp.code = 200
    /\ registered[resp.key].valid
    /\ resp.key \in acked.chunks
    /\ Len(resp.nodes) = 1
    /\ Cardinality(AliveNow) >= 2
    /\ DOMAIN Catalog.files # {}
    /\ resp.at > 0

(***************************************************************************)
(* C12. Repair idempotence: when at least R nodes are alive, repair        *)
(* applied to the result of repair, with the same alive list and R,        *)
(* returns that result unchanged, whatever the first application drew.     *)
(***************************************************************************)
C12_RepairIdempotence ==
    (call.stage = "twice" /\ Len(call.alive) >= REPLICATION_FACTOR) =>
        /\ call.second.ok
        /\ call.second.nodes = call.first.nodes

\* Repair was applied twice to a list with a repeated node and a node that
\* is not alive; the first application had to draw a node.
C12_Witness ==
    /\ call.stage = "twice"
    /\ call.current = <<"s1", "s1", "sx">>
    /\ Len(call.alive) = 3
    /\ REPLICATION_FACTOR = 2

\* The position of the first occurrence of node x in the stored list.
FirstIdx(x) ==
    CHOOSE i \in DOMAIN call.current :
        /\ call.current[i] = x
        /\ \A j \in 1..(i - 1) : call.current[j] # x

\* The stored nodes that are alive.
KeptSet == Range(call.current) \cap Range(call.alive)

\* The i-th of them in the insertion order of the stored list.
KeptAt(i) ==
    CHOOSE x \in KeptSet :
        Cardinality({ y \in KeptSet : FirstIdx(y) < FirstIdx(x) }) = i - 1

(***************************************************************************)
(* C13. Repair result: with at least R alive nodes repair returns exactly  *)
(* R distinct alive nodes; they start with the stored nodes that are       *)
(* alive, each once, in the insertion order of the stored list, cut to R,  *)
(* so none of them is dropped while at most R are kept. With fewer than R  *)
(* alive nodes repair fails.                                               *)
(***************************************************************************)
C13_RepairResult ==
    LET nodes == call.first.nodes
        kept == IF Cardinality(KeptSet) < REPLICATION_FACTOR
                THEN Cardinality(KeptSet) ELSE REPLICATION_FACTOR
    IN  call.stage \in {"once", "twice"} =>
          IF Len(call.alive) >= REPLICATION_FACTOR
          THEN /\ call.first.ok
               /\ Len(nodes) = REPLICATION_FACTOR
               /\ \A i, j \in DOMAIN nodes : i # j => nodes[i] # nodes[j]
               /\ Range(nodes) \subseteq Range(call.alive)
               /\ \A i \in 1..kept : nodes[i] = KeptAt(i)
               /\ Cardinality(KeptSet) <= REPLICATION_FACTOR
                     => KeptSet \subseteq Range(nodes)
          ELSE ~call.first.ok

\* Repair kept two alive nodes of a stored list, in the stored order, and
\* drew one more.
C13_Witness ==
    /\ call.stage = "once"
    /\ call.first.ok
    /\ REPLICATION_FACTOR = 3
    /\ call.current = <<"s3", "sx", "s1">>
    /\ call.alive = <<"s1", "s2", "s3">>
    /\ call.first.nodes = <<"s3", "s1", "s2">>

(***************************************************************************)
(* C14. Heartbeat monotonicity: after a successful heartbeat of a          *)
(* configured node at time t, the node is alive after the sweep of every   *)
(* request handled at a time t' up to t + T_timeout, whatever was handled  *)
(* in between. (The sweep demotes only when t' - t > T_timeout, so the     *)
(* bound t + T_timeout itself is included, and with it every               *)
(* t' < t + T_timeout.)                                                    *)
(***************************************************************************)
C14_HeartbeatMonotonic ==
    (resp # NoResp /\ ~(resp.op = "storage_heartbeat" /\ resp.code = 400)) =>
        \A n \in Range(STORAGE_NODES) :
            ( /\ acked.beats[n] >= 0
              /\ resp.at - acked.beats[n] <= HEARTBEAT_TIMEOUT_SEC )
            => n \in AliveNow

\* A chunk_check sweeps one timeout after the heartbeat of s1: s1 stays
\* alive while s3, which sent none, is dead.
C14_Witness ==
    /\ resp.op = "chunk_check"
    /\ acked.beats["s1"] >= 0
    /\ resp.at - acked.beats["s1"] = HEARTBEAT_TIMEOUT_SEC
    /\ "s1" \in AliveNow
    /\ "s3" \in DeadNow

C16_CommitValidation ==
    [][ (request'.op = "file_commit" /\ resp' # NoResp) =>
          LET missing == \E fp \in Range(request'.fps) :
                            fp \notin DOMAIN Catalog.chunks
          IN  resp'.code =
                 IF missing THEN 400
                 ELSE IF Cardinality(AliveNow') < REPLICATION_FACTOR THEN 500
                 ELSE 200 ]_vars

\* A commit naming a registered and an unregistered fingerprint is answered
\* 400 while fewer than R nodes are alive.
C16_Witness ==
    /\ request.op = "file_commit" /\ request.fps = <<"b", "a", "b">>
    /\ resp.code = 400
    /\ "a" \in DOMAIN Catalog.chunks
    /\ Cardinality(AliveNow) < REPLICATION_FACTOR
    /\ REPLICATION_FACTOR <= Len(STORAGE_NODES)

(***************************************************************************)
(* C17. No partial success: a chunk_register or file_commit that returns   *)
(* an error leaves the files and chunks sections of the persisted catalog  *)
(* as they were: no file record is stored and no replica list changes.     *)
(***************************************************************************)
C17_NoPartialSuccess ==
    [][ ( /\ request'.op \in {"chunk_register", "file_commit"}
          /\ resp' # NoResp
          /\ resp'.code # 200 )
        => /\ resp'.code \in {400, 500}
           /\ Catalog'.files = Catalog.files
           /\ Catalog'.chunks = Catalog.chunks ]_vars

\* A commit of three chunks over two registered fingerprints fails with 500
\* while a stored replica is dead and an earlier commit stored the file.
C17_Witness ==
    /\ request.op = "file_commit" /\ request.fps = <<"b", "a", "b">>
    /\ resp.code = 500
    /\ {"a", "b"} \subseteq DOMAIN Catalog.chunks
    /\ DOMAIN Catalog.files # {}
    /\ Range(Replicas("a")) \cap DeadNow # {}

(***************************************************************************)
(* C18, as claimed: with fewer configured nodes than R, every              *)
(* chunk_register and every file_commit is answered 500.                   *)
(***************************************************************************)
C18_EveryWriteInsufficient ==
    ( /\ REPLICATION_FACTOR > Len(STORAGE_NODES)
      /\ resp.op \in {"chunk_register", "file_commit"} )
    => resp.code = 500

(***************************************************************************)
(* C18, amended: with fewer configured nodes than R, every chunk_register  *)
(* is answered 500 and every file_commit fails with 400, since no          *)
(* fingerprint can be registered and file_commit validates the             *)
(* fingerprints before the alive count; no chunk and no file is recorded.  *)
(***************************************************************************)
C18_NoWriteSucceeds ==
    REPLICATION_FACTOR > Len(STORAGE_NODES) =>
        /\ resp.op = "chunk_register" => resp.code = 500
        /\ resp.op = "file_commit" => resp.code = 400
        /\ DOMAIN Catalog.chunks = {}
        /\ DOMAIN Catalog.files = {}

\* With R above the number of configured nodes a file_commit is answered
\* after a chunk_register was refused and the catalog file was written.
C18_Witness ==
    /\ REPLICATION_FACTOR > Len(STORAGE_NODES)
    /\ request.op = "file_commit" /\ resp.code = 400
    /\ Cardinality(AliveNow) = Len(STORAGE_NODES)

(***************************************************************************)
(* C19. chunk_check is a pure read: the persisted catalog document after a *)
(* chunk_check is the document before it.                                  *)
(***************************************************************************)
C19_ChunkCheckPureRead ==
    [][ (request'.op = "chunk_check" /\ resp' # NoResp)
        => Catalog' = Catalog ]_vars

(***************************************************************************)
(* C20. Corruption is fatal: while the catalog file exists and does not    *)
(* parse, every handler that loads it fails with an error and the file     *)
(* stays as it is; it is never replaced by a freshly initialised catalog,  *)
(* so every later request fails too.                                       *)
(***************************************************************************)
C20_CorruptionFatal ==
    [][ (meta.exists /\ ~Parses(meta.data)) =>
          /\ meta' = meta
          /\ resp' # NoResp =>
                \/ resp'.code = 500 /\ resp'.items = <<"RuntimeError">>
                \/ /\ request'.op = "storage_heartbeat"
                   /\ heartbeat_rejected(request'.key)
                   /\ resp'.code = 400 ]_vars

\* A file_get fails on a cut-off catalog file, after time has passed.
C20_Witness ==
    /\ request.op = "file_get"
    /\ resp.code = 500 /\ resp.items = <<"RuntimeError">>
    /\ meta.exists /\ meta.data # <<>> /\ ~Parses(meta.data)
    /\ resp.at > 0

(***************************************************************************)
(* C21. Records are never deleted: a file name whose file_commit succeeded *)
(* is a key of files and a fingerprint whose chunk_register succeeded is a *)
(* key of chunks in the persisted catalog after every later handler, and a *)
(* file_get of a committed name never answers 404.                         *)
(***************************************************************************)
C21_RecordsNeverDeleted ==
    /\ acked.chunks \subseteq DOMAIN Catalog.chunks
    /\ DOMAIN acked.files \subseteq DOMAIN Catalog.files
    /\ ( resp.op = "file_get" /\ resp.key \in DOMAIN acked.files )
         => resp.code # 404

\* Both fingerprints were registered, a file naming one of them committed,
\* and a later file_get of the name answered.
C21_Witness ==
    /\ acked.chunks = Fingerprints
    /\ "f" \in DOMAIN acked.files
    /\ acked.files["f"] = <<"a">>
    /\ resp.op = "file_get"
    /\ resp.code = 200

(***************************************************************************)
(* Steps of the membership claims: a handler that loaded the catalog and   *)
(* ran the timeout sweep answers in this step, and the heartbeat of node n *)
(* is accepted in this step.                                               *)
(***************************************************************************)
SweptStep ==
    /\ resp = NoResp
    /\ resp' # NoResp
    /\ ~IsIOError(resp')
    /\ ~(resp'.op = "storage_heartbeat" /\ resp'.code = 400)

Beat(n) ==
    /\ resp = NoResp
    /\ resp'.op = "storage_heartbeat"
    /\ resp'.code = 200
    /\ resp'.key = n

\* The persisted entry of n is alive or suspected and older than the timeout.
Expired(n) ==
    /\ Catalog.membership[n].status \in {"alive", "suspected"}
    /\ now - Catalog.membership[n].last_heartbeat_ts > HEARTBEAT_TIMEOUT_SEC

(***************************************************************************)
(* C22 as stated: after any handler that runs the sweep, the heartbeat     *)
(* handler included, every configured node whose entry was alive or        *)
(* suspected and older than the timeout is dead.                           *)
(***************************************************************************)
C22_EveryExpiredNodeDead ==
    [][ SweptStep =>
          \A n \in Range(STORAGE_NODES) \cap DOMAIN Catalog.membership :
              Expired(n) => Catalog'.membership[n].status = "dead" ]_vars

(***************************************************************************)
(* C22. Sweep effect: after any handler that runs the sweep at time now,   *)
(* every configured node other than the one whose heartbeat the handler    *)
(* accepts is dead if its entry was alive or suspected and older than the  *)
(* timeout, keeps its status if its entry was no older than the timeout or *)
(* already dead, and every entry other than that node's keeps its          *)
(* timestamps; a second sweep at the same time reports no change.          *)
(***************************************************************************)
C22_SweepEffect ==
    [][ SweptStep =>
          /\ \A n \in DOMAIN Catalog.membership :
               /\ n \in DOMAIN Catalog'.membership
               /\ ~Beat(n) =>
                    LET old == Catalog.membership[n]
                        new == Catalog'.membership[n]
                    IN  /\ new.last_heartbeat_ts = old.last_heartbeat_ts
                        /\ new.last_heartbeat_at = old.last_heartbeat_at
                        /\ n \in Range(STORAGE_NODES) =>
                             /\ Expired(n) => new.status = "dead"
                             /\ now - old.last_heartbeat_ts
                                  <= HEARTBEAT_TIMEOUT_SEC
                                  => new.status = old.status
                             /\ old.status = "dead" => new.status = "dead"
          /\ ~refresh_changed(Catalog', now) ]_vars

\* A chunk_check two ticks after the load found the suspected node s1 of
\* the first legacy catalog timed out and the persisted entry is dead, its
\* timestamps kept.
C22_Witness ==
    /\ resp.op = "chunk_check"
    /\ resp.at = 2
    /\ Catalog.membership["sx"].status = "alive"
    /\ Catalog.membership["s1"] =
         [_new_membership_entry(0, "dead") EXCEPT !.status = "dead"]
    /\ acked.beats["s1"] = -1

(***************************************************************************)
(* C23. Revival only by heartbeat: a configured node whose persisted       *)
(* status is dead is still dead after every step that does not accept a    *)
(* heartbeat of that node, and the response of that step does not list it; *)
(* the step that accepts a heartbeat of a node persists it as alive with   *)
(* both timestamps at the heartbeat time, whatever its status was.         *)
(***************************************************************************)
C23_RevivalOnlyByHeartbeat ==
    [][ \A n \in Range(STORAGE_NODES) :
          /\ ( n \in DeadNow /\ ~Beat(n) )
               => /\ n \in DeadNow'
                  /\ n \notin Listed(resp')
          /\ Beat(n)
               => Catalog'.membership[n] = _new_membership_entry(now, "alive")
      ]_vars

\* In the second legacy catalog s2 is dead: the two chunks were registered
\* on the other two nodes, and then, still at time 0, a heartbeat of s2 was
\* accepted and s2 is persisted alive.
C23_Witness ==
    /\ now = 0
    /\ Catalog.membership["sx"].status = "suspected"
    /\ Fingerprints \subseteq DOMAIN Catalog.chunks
    /\ Range(Replicas("a")) = {"s1"}
    /\ Range(Replicas("b")) = {"s3"}
    /\ resp.op = "storage_heartbeat"
    /\ resp.code = 200
    /\ resp.key = "s2"
    /\ Catalog.membership["s2"] = _new_membership_entry(0, "alive")

(***************************************************************************)
(* C24. Dead-node detection is request-driven but eventual: while          *)
(* catalog-reading requests keep arriving, a configured node whose         *)
(* persisted entry is alive and older than the timeout is eventually       *)
(* persisted as dead, unless a heartbeat of it is accepted first; while it *)
(* is dead no response lists it unless its heartbeat is accepted; and a    *)
(* step in which no handler answers (time passing, a response returned)    *)
(* leaves the persisted catalog as it is, so without a request the status  *)
(* stays alive.                                                            *)
(***************************************************************************)
C24_EventualDetection ==
    /\ \A n \in Range(STORAGE_NODES) :
         ( n \in DOMAIN Catalog.membership /\ Expired(n) )
           ~> ( n \in DOMAIN Catalog.membership
                /\ ( n \in DeadNow \/ ~Expired(n) ) )
    /\ ( "s3" \in DOMAIN Catalog.membership /\ Expired("s3") )
         ~> ( "s3" \in DeadNow )
    /\ [][ /\ \A n \in DeadNow : ~Beat(n) => n \notin Listed(resp')
           /\ resp' = NoResp => Catalog' = Catalog ]_vars

\* s3, which sends no heartbeat, was persisted alive at time 0, is timed
\* out at time 2, and a chunk_check at time 2 has persisted it as dead.
C24_Witness ==
    /\ now = 2
    /\ resp.op = "chunk_check"
    /\ resp.at = 2
    /\ "s3" \in DeadNow
    /\ Catalog.membership["s3"].last_heartbeat_ts = 0

(***************************************************************************)
(* C25. Commit repair and its frame: after a successful file_commit, each  *)
(* distinct fingerprint the file names has a persisted replica list of     *)
(* exactly R distinct nodes, all alive at commit time, that starts with    *)
(* its previously stored alive replicas in their stored order; the chunk   *)
(* records the file does not name and every other file record are          *)
(* unchanged; and a commit whose fingerprints are all registered fails     *)
(* only when fewer than R nodes are alive, never part-way through the      *)
(* repair loop.                                                            *)
(***************************************************************************)
C25_CommitRepairFrame ==
    [][ ( resp = NoResp /\ resp'.op = "file_commit" ) =>
          /\ resp'.code = 200 =>
               /\ \A fp \in Range(request'.fps) :
                    LET old == Catalog.chunks[fp].replicas
                        new == Catalog'.chunks[fp].replicas
                        kept == Prefix(Filter(_unique_nodes(old), AliveNow'),
                                       REPLICATION_FACTOR)
                    IN  /\ Len(new) = REPLICATION_FACTOR
                        /\ Cardinality(Range(new)) = REPLICATION_FACTOR
                        /\ Range(new) \subseteq AliveNow'
                        /\ SubSeq(new, 1, Len(kept)) = kept
               /\ DOMAIN Catalog'.chunks = DOMAIN Catalog.chunks
               /\ \A fp \in DOMAIN Catalog.chunks \ Range(request'.fps) :
                    Catalog'.chunks[fp] = Catalog.chunks[fp]
               /\ \A name \in DOMAIN Catalog.files \ {request'.key} :
                    /\ name \in DOMAIN Catalog'.files
                    /\ Catalog'.files[name] = Catalog.files[name]
               /\ Catalog'.files[request'.key] = [chunks |-> request'.fps]
          /\ resp'.code = 500 =>
               Cardinality(AliveNow') < REPLICATION_FACTOR
          /\ ( Range(request'.fps) \subseteq DOMAIN Catalog.chunks
               /\ Cardinality(AliveNow') >= REPLICATION_FACTOR )
               => resp'.code = 200 ]_vars

\* The file f naming only a was committed with two replicas per chunk: the
\* list of a holds alive nodes, the list of the chunk b, which f does not
\* name, still holds a dead node, and the file g is still recorded.
C25_Witness ==
    /\ REPLICATION_FACTOR = 2
    /\ resp.op = "file_commit"
    /\ resp.code = 200
    /\ request.fps = <<"a">>
    /\ Range(Replicas("a")) \subseteq AliveNow
    /\ Range(Replicas("b")) \cap DeadNow # {}
    /\ Catalog.files["g"] = [chunks |-> <<"b">>]
    /\ Catalog.files["f"] = [chunks |-> <<"a">>]

(***************************************************************************)
(* C26. The suspected status is never produced: an entry that is persisted *)
(* as suspected after a step was suspected before it. An entry that is     *)
(* suspected is not listed by the response of the step nor placed by a     *)
(* commit, and after the step it is alive if the step accepted its         *)
(* heartbeat, dead if it is a configured node older than the timeout and   *)
(* the step ran the sweep, and suspected otherwise.                        *)
(***************************************************************************)
C26_SuspectedNeverProduced ==
    [][ /\ \A n \in DOMAIN Catalog'.membership :
             Catalog'.membership[n].status = "suspected"
               => /\ n \in DOMAIN Catalog.membership
                  /\ Catalog.membership[n].status = "suspected"
        /\ \A n \in DOMAIN Catalog.membership :
             Catalog.membership[n].status = "suspected"
               => /\ n \notin Listed(resp')
                  /\ ( resp'.op = "file_commit" /\ resp'.code = 200 )
                       => \A fp \in Range(request'.fps) :
                             n \notin Range(Catalog'.chunks[fp].replicas)
                  /\ Catalog'.membership[n].status =
                       IF Beat(n) THEN "alive"
                       ELSE IF /\ SweptStep
                               /\ n \in Range(STORAGE_NODES)
                               /\ Expired(n)
                            THEN "dead"
                            ELSE "suspected" ]_vars

\* In the first legacy catalog s1 is suspected: at time 1 it is still
\* suspected, and the two chunks have been placed on the other two nodes.
C26_Witness ==
    /\ now = 1
    /\ Catalog.membership["s1"].status = "suspected"
    /\ resp.op = "chunk_register"
    /\ resp.code = 200
    /\ resp.at = 1
    /\ Range(resp.nodes) = {"s3"}
    /\ Fingerprints \subseteq DOMAIN Catalog.chunks
    /\ Range(Replicas("a")) = {"s2"}
    /\ Range(Replicas("b")) = {"s3"}

(***************************************************************************)
(* C27. Membership entries outside the configured node set: such an entry  *)
(* keeps its key and its status through every step (no handler removes it, *)
(* the sweep does not demote it), and its node is in no response list and  *)
(* in no persisted replica list. Conversely, after any handler that loaded *)
(* the catalog every configured node has a persisted entry, and an entry   *)
(* that was absent is alive with the load time as both timestamps.         *)
(***************************************************************************)
C27_UnconfiguredEntries ==
    [][ /\ \A n \in DOMAIN Catalog.membership \ Range(STORAGE_NODES) :
             /\ n \in DOMAIN Catalog'.membership
             /\ Catalog'.membership[n] = Catalog.membership[n]
             /\ n \notin Listed(resp')
             /\ \A fp \in DOMAIN Catalog'.chunks :
                  n \notin Range(Catalog'.chunks[fp].replicas)
        /\ SweptStep =>
             \A n \in Range(STORAGE_NODES) :
                 /\ n \in DOMAIN Catalog'.membership
                 /\ n \notin DOMAIN Catalog.membership
                      => Catalog'.membership[n] =
                           _new_membership_entry(now, "alive") ]_vars

\* The first legacy catalog, first loaded at time 2 by a chunk_check: the
\* entry of the unconfigured node sx is as it was, alive with its stamp of
\* time 0, while the configured s2 of the same age was demoted, and the
\* absent s3 got an alive entry stamped 2.
C27_Witness ==
    /\ now = 2
    /\ resp.op = "chunk_check"
    /\ Catalog.membership["sx"] = LegacyEntry("alive")
    /\ "s2" \in DeadNow
    /\ Catalog.membership["s3"] = _new_membership_entry(2, "alive")

====
